---- MODULE Spec2Model ----
(***************************************************************************)
(* A model of the flyer viewer of src/script.js.  The file holds two       *)
(* iterations of the same page script:                                     *)
(*   variant "A"  lines 1-265   data fetched from data.json, modal bound   *)
(*                              to the browser history;                    *)
(*   variant "B"  lines 267-455 data embedded, no history.                 *)
(* A behaviour runs one of the two, chosen in Init.  Every event-loop task *)
(* (a listener call, a promise reaction chain, a timer, an animation-frame *)
(* callback, a history traversal, an image load event) is one action.      *)
(***************************************************************************)
EXTENDS Integers, Sequences, FiniteSets, TLC

\* ------------------------------------------------------------------ bounds
MaxImages == 3      \* longest image sequence of a FlyerSet
MaxPending == 2     \* most callbacks (close timers, animation frames, traversals) in flight
MaxHistory == 3     \* most session-history entries of the document
MaxNameLen == 5     \* longest mart name drawn by SpecNames

VARIABLES
    variant,          \* which script runs: "A" or "B"
    domOk,            \* the required containers exist in the page
    phase,            \* "loading", "aborted", "fetching", "ready", "failed"
    fetched,          \* how the request for data.json ended, "none" before it has
    data,             \* the mart array of data.json (A) or of the embedded constant (B)
    marts,            \* the script's marts array
    martList,         \* children of #mart-list
    preload,          \* "none", "scheduled", "done"
    preloaded,        \* URLs handed to new Image() by preloadCovers
    currentMart,      \* index into marts, NoMart for null
    modalTitle,       \* content of #modal-title
    modalClasses,     \* subset of {"hidden", "show"} on #flyer-modal
    tabCurrentActive, \* #tab-current carries "active"
    tabPastActive,    \* #tab-past carries "active"
    flyerContainer,   \* children of #flyer-container
    bodyOverflow,     \* document.body.style.overflow: "" or "hidden"
    hist,             \* session history up to the current entry; TRUE = {modal: true}
    pendingBack,      \* history traversals by -1 requested and not yet performed
    rafPending,       \* requestAnimationFrame callbacks not yet run
    timers,           \* 300 ms close timers not yet fired
    closeReq          \* history variable: the close trigger the user gave last while the
                      \* modal was open, "none" after any other input; "off" = not recorded

vars == <<variant, domOk, phase, fetched, data, marts, martList, preload, preloaded,
          currentMart, modalTitle, modalClasses, tabCurrentActive, tabPastActive,
          flyerContainer, bodyOverflow, hist, pendingBack, rafPending, timers,
          closeReq>>

\* ------------------------------------------------------------------ values
NoMart == 0                      \* currentMart = null
Tabs == {"current", "past"}

\* A flyer page URL.  Pages of different marts, tabs and positions differ.
Url(m, tab, i) == <<m, tab, i>>
ImagesOf(m, tab, n) == [i \in 1..n |-> Url(m, tab, i)]

\* The fixed URLs the error handlers substitute:
\* https://placehold.co/600x400/f5f5f7/888888?text=Image+Not+Found and
\* https://placehold.co/600x400?text=... ; they are no page of any mart.
PlaceholderA == <<0, "placeholder-A", 0>>
PlaceholderB == <<0, "placeholder-B", 0>>

\* ------------------------------------------------------------------ names
Alphabet == {"a", " ", "(", ")"}

MinOf(S) == CHOOSE x \in S : \A y \in S : x <= y
MaxOf(S) == CHOOSE x \in S : \A y \in S : x >= y

\* String.prototype.trim on a sequence of characters.
Trim(str) ==
    LET keep == {i \in 1..Len(str) : str[i] # " "}
    IN  IF keep = {} THEN <<>> ELSE SubSeq(str, MinOf(keep), MaxOf(keep))

\* The ways /([^(]+)\s*\(([^)]+)\)/ matches with the match starting at index s:
\* group 1 is str[s..e], \s* is str[e+1..p-1], "(" is at p, group 2 is
\* str[p+1..q-1] and ")" is at q.
MatchesAt(str, s) ==
    {t \in (s..Len(str)) \X (1..Len(str)) \X (1..Len(str)) :
        LET e == t[1]
            p == t[2]
            q == t[3]
        IN  /\ e < p /\ p + 1 < q
            /\ str[p] = "("
            /\ str[q] = ")"
            /\ \A i \in s..e : str[i] # "("
            /\ \A i \in (e + 1)..(p - 1) : str[i] = " "
            /\ \A i \in (p + 1)..(q - 1) : str[i] # ")"}

NoMatch == [found |-> FALSE]

\* The match the engine prefers among M: each quantifier greedy, the earlier one
\* first (the longest group 1, then the longest group 2).
Greedy(M) ==
    CHOOSE t \in M : \A u \in M : t[1] > u[1] \/ (t[1] = u[1] /\ t[3] >= u[3])

Groups(str, s, t) ==
    [found |-> TRUE, g1 |-> SubSeq(str, s, t[1]), g2 |-> SubSeq(str, t[2] + 1, t[3] - 1)]

\* The starts at which the pattern matches.
MatchStarts(str) == {s \in 1..Len(str) : MatchesAt(str, s) # {}}

\* mart.name.match(re): the match at the leftmost start that has one.
NameMatch(str) ==
    IF MatchStarts(str) = {} THEN NoMatch
    ELSE Groups(str, MinOf(MatchStarts(str)),
                Greedy(MatchesAt(str, MinOf(MatchStarts(str)))))

\* renderMarts: the content of a card's h3.mart-name.
CardNameHtml(name) ==
    LET match == NameMatch(name)
    IN  IF match.found
        THEN [kind |-> "spans", ko |-> Trim(match.g1), between |-> <<>>,
              enClass |-> "name-en", en |-> Trim(match.g2)]
        ELSE [kind |-> "text", text |-> name]

\* openModal: the content of #modal-title.
ModalTitleHtml(name) ==
    LET match == NameMatch(name)
    IN  IF match.found
        THEN [kind |-> "spans", ko |-> Trim(match.g1), between |-> <<" ">>,
              enClass |-> "name-en-modal", en |-> Trim(match.g2)]
        ELSE [kind |-> "text", text |-> name]

\* The embedded-data script writes the name as it is.
PlainName(name) == [kind |-> "text", text |-> name]

\* ------------------------------------------------------------------ data
\* The marts of the main specification: two records.  Of the first, either the
\* current set takes every length up to MaxImages and the past set is empty (the
\* shape of the embedded marts), or the current set has one page and the past set
\* takes every length from one up to MaxImages or lacks its images property.
Name1 == <<"a", " ", "(", "a", ")">>
Name2 == <<"a", "a">>

\* A FlyerSet; hasImages = FALSE stands for one without an images property.
FlyerSet(images) == [hasImages |-> TRUE, images |-> images]
NoImagesProperty == [hasImages |-> FALSE, images |-> <<>>]

FlyerShapes(m) ==
    {[current |-> FlyerSet(ImagesOf(m, "current", n)), past |-> FlyerSet(<<>>)] :
        n \in 0..MaxImages}
    \cup
    {[current |-> FlyerSet(ImagesOf(m, "current", 1)), past |-> p] :
        p \in {NoImagesProperty} \cup {FlyerSet(ImagesOf(m, "past", n)) : n \in 1..MaxImages}}

\* The second mart of the main specification has one current page and one past page.
Flyers2 == [current |-> FlyerSet(ImagesOf(2, "current", 1)),
            past |-> FlyerSet(ImagesOf(2, "past", 1))]

DataSet ==
    {<<[name |-> Name1, flyers |-> f1], [name |-> Name2, flyers |-> Flyers2]>> :
        f1 \in FlyerShapes(1)}

\* The names SpecNames draws for the first mart.
RECURSIVE StringsOfLen(_)
StringsOfLen(n) ==
    IF n = 0 THEN {<<>>}
    ELSE {Append(str, c) : str \in StringsOfLen(n - 1), c \in Alphabet}

Names == UNION {StringsOfLen(n) : n \in 0..MaxNameLen}

NameDataSet ==
    {<<[name |-> n, flyers |-> [current |-> FlyerSet(ImagesOf(1, "current", 1)),
                                past |-> FlyerSet(<<>>)]]>> : n \in Names}

\* ------------------------------------------------------------------ elements
FailureMessage == [kind |-> "loadFailed"]       \* the <p> of the catch handler
NoPastMessage == [kind |-> "noPast"]            \* "no past flyer data"
NoImagesMessage == [kind |-> "noImages"]        \* "no flyer image registered"
FallbackNote == [kind |-> "fallbackNote"]       \* "showing the current flyer instead"

IsImg(el) == el.kind = "img"

\* Mutant of RenderImagesA: the pages are prepended, so they end in reverse order.
RenderImagesAReversed(images) ==
    [i \in 1..Len(images) |->
        [kind |-> "img", src |-> images[Len(images) + 1 - i],
         loading |-> IF i = 1 THEN "eager" ELSE "lazy",
         onerror |-> TRUE, border |-> FALSE, state |-> "loading"]]

\* switchTab's image loop of the history-aware script: one <img> per URL.
RenderImagesA(images) ==
    [i \in 1..Len(images) |->
        [kind |-> "img", src |-> images[i],
         loading |-> IF i = 1 THEN "eager" ELSE "lazy",
         onerror |-> TRUE, border |-> FALSE, state |-> "loading"]]

\* switchTab's image loop of the embedded-data script.
RenderImagesB(images) ==
    [i \in 1..Len(images) |->
        [kind |-> "img", src |-> images[i], loading |-> "auto",
         onerror |-> TRUE, border |-> FALSE, state |-> "loading"]]

\* !flyerData.images || flyerData.images.length === 0
NoImages(flyerData) == ~flyerData.hasImages \/ Len(flyerData.images) = 0

\* Mutant of SwitchTabA: the empty past set is not caught before the render.
SwitchTabANoEarlyReturn(m, tab, old) ==
    LET flyerData == IF tab = "current" THEN marts[m].flyers.current
                                        ELSE marts[m].flyers.past
    IN  IF ~NoImages(flyerData)
        THEN RenderImagesA(flyerData.images)
        ELSE <<NoImagesMessage>>

\* flyerContainer after switchTab(tab) of the history-aware script, currentMart = m.
SwitchTabA(m, tab, old) ==
    LET flyerData == IF tab = "current" THEN marts[m].flyers.current
                                        ELSE marts[m].flyers.past
    IN  IF tab # "current" /\ NoImages(flyerData)
        THEN <<NoPastMessage>>
        ELSE LET cleared == <<>>
             IN  IF ~NoImages(flyerData)
                 THEN cleared \o RenderImagesA(flyerData.images)
                 ELSE <<NoImagesMessage>>

\* Mutant of SwitchTabB: the container is not cleared before the render.
SwitchTabBNoClear(m, tab, old) ==
    LET selected == IF tab = "current" THEN marts[m].flyers.current
                                       ELSE marts[m].flyers.past
        fallback == tab # "current" /\ NoImages(selected)
        flyerData == IF fallback THEN marts[m].flyers.current ELSE selected
        noted == IF fallback THEN Append(old, FallbackNote) ELSE old
    IN  noted \o RenderImagesB(flyerData.images)

\* flyerContainer after switchTab(tab) of the embedded-data script.
SwitchTabB(m, tab, old) ==
    LET selected == IF tab = "current" THEN marts[m].flyers.current
                                       ELSE marts[m].flyers.past
        fallback == tab # "current" /\ NoImages(selected)
        flyerData == IF fallback THEN marts[m].flyers.current ELSE selected
        noted == IF fallback THEN Append(old, FallbackNote) ELSE old
        cleared == SubSeq(noted, 1, 0)
    IN  cleared \o RenderImagesB(flyerData.images)

SwitchTab(m, tab, old) ==
    IF variant = "A" THEN SwitchTabA(m, tab, old) ELSE SwitchTabB(m, tab, old)

\* renderMarts / the card loop: one card per mart, in array order.
RenderMartsA(list) ==
    [i \in 1..Len(list) |-> [kind |-> "card", mart |-> i, name |-> CardNameHtml(list[i].name)]]

RenderMartsB(list) ==
    [i \in 1..Len(list) |-> [kind |-> "card", mart |-> i, name |-> PlainName(list[i].name)]]

\* preloadCovers' callback: the first current page of every mart that has one.
Covers(list) ==
    {list[i].flyers.current.images[1] :
        i \in {j \in 1..Len(list) : ~NoImages(list[j].flyers.current)}}

\* ------------------------------------------------------------------ initial state
NoTitle == [kind |-> "text", text |-> <<>>]

\* The page as loaded: the modal closed (class "hidden"), both containers empty, the
\* script's own variables as declared (currentMart = null, marts = []).
InitWith(payloads, variants, requests) ==
    /\ variant \in variants
    /\ domOk \in (IF variant = "A" THEN BOOLEAN ELSE {TRUE})
    /\ phase = "loading"
    /\ fetched = "none"
    /\ data \in payloads
    /\ marts = (IF variant = "A" THEN <<>> ELSE data)
    /\ martList = <<>>
    /\ preload = "none"
    /\ preloaded = {}
    /\ currentMart = NoMart
    /\ modalTitle = NoTitle
    /\ modalClasses = {"hidden"}
    /\ tabCurrentActive \in BOOLEAN
    /\ tabPastActive \in BOOLEAN
    /\ flyerContainer = <<>>
    /\ bodyOverflow = ""
    /\ hist = <<FALSE>>
    /\ pendingBack = 0
    /\ rafPending = 0
    /\ timers = 0
    /\ closeReq = requests

Init == InitWith(DataSet, {"A", "B"}, "off")

\* ------------------------------------------------------------------ startup
\* Callbacks in flight.  The model lets a task start one more only below MaxPending.
InFlight == timers + rafPending + pendingBack

fixedVars == <<variant, domOk, data>>
loadVars == <<phase, fetched, marts, martList, preload, preloaded>>
sessionVars == <<currentMart, modalTitle, tabCurrentActive, tabPastActive, flyerContainer>>
closeVars == <<modalClasses, bodyOverflow, timers, pendingBack>>

\* The listeners of the script are registered.
Listening == phase \in {"fetching", "ready", "failed"}

\* Mutant of DOMContentLoaded: the required elements are not tested.
DOMContentLoadedUnguarded ==
    /\ phase = "loading"
    /\ IF variant = "A"
       THEN /\ phase' = "fetching"
            /\ martList' = martList
       ELSE /\ phase' = "ready"
            /\ martList' = martList \o RenderMartsB(marts)
    /\ UNCHANGED <<fixedVars, fetched, marts, preload, preloaded, sessionVars, closeVars,
                   hist, rafPending, closeReq>>

\* The DOMContentLoaded listener.  History-aware script: the guard on the required
\* elements, then fetch('data.json') is issued and the listeners are registered.
\* Embedded-data script: the cards are rendered and the listeners registered.
DOMContentLoaded ==
    /\ phase = "loading"
    /\ IF variant = "A"
       THEN /\ phase' = (IF domOk THEN "fetching" ELSE "aborted")
            /\ martList' = martList
       ELSE /\ phase' = "ready"
            /\ martList' = martList \o RenderMartsB(marts)
    /\ UNCHANGED <<fixedVars, fetched, marts, preload, preloaded, sessionVars, closeVars,
                   hist, rafPending, closeReq>>

FetchOutcomes == {"ok", "notOk", "parseError", "rejected"}

\* Mutant of Succeeds: the response status is not tested.
SucceedsWhateverStatus(outcome) == outcome \in {"ok", "notOk"}

\* The chain reaches its second then-reaction: the request resolved, the response
\* is OK and its body parsed.
Succeeds(outcome) == outcome = "ok"

\* The promise chain of fetch('data.json'): both then-reactions on success, the
\* catch-reaction when the response is not OK, its body is no JSON, or the request
\* rejects.
FetchSettle(outcome) ==
    /\ variant = "A"
    /\ phase = "fetching"
    /\ fetched' = outcome
    /\ IF Succeeds(outcome)
       THEN /\ marts' = data
            /\ martList' = RenderMartsA(data)
            /\ preload' = "scheduled"
            /\ phase' = "ready"
       ELSE /\ martList' = <<FailureMessage>>
            /\ phase' = "failed"
            /\ UNCHANGED <<marts, preload>>
    /\ UNCHANGED <<fixedVars, preloaded, sessionVars, closeVars, hist, rafPending, closeReq>>

\* The idle callback (or the 1000 ms timer) of preloadCovers.
PreloadRun ==
    /\ preload = "scheduled"
    /\ preload' = "done"
    /\ preloaded' = preloaded \cup Covers(marts)
    /\ UNCHANGED <<fixedVars, phase, fetched, marts, martList, sessionVars, closeVars,
                   hist, rafPending, closeReq>>

\* The modal was opened by openModal and no hide has run since: only openModal sets
\* the body overflow and only the hide step resets it.
Opened == bodyOverflow = "hidden"

\* closeReq after a user input: a close trigger given while the modal is open is
\* recorded, any other input clears the record.
Trigger(name) == IF closeReq = "off" THEN "off" ELSE IF Opened THEN name ELSE "none"
Input == IF closeReq = "off" THEN "off" ELSE "none"

\* ------------------------------------------------------------------ open, tabs
HasCard(m) == \E i \in 1..Len(martList) : martList[i].kind = "card" /\ martList[i].mart = m

TitleOf(m) ==
    IF variant = "A" THEN ModalTitleHtml(marts[m].name) ELSE PlainName(marts[m].name)

\* Mutant of TabClasses: 'active' is never removed from the current tab.
TabClassesKeepCurrent(tab) == [current |-> TRUE, past |-> tab # "current"]

\* The tab classes switchTab leaves.
TabClasses(tab) == [current |-> tab = "current", past |-> tab # "current"]

\* Mutant of OpenModalBody: the previous content is kept in front of the new.
OpenModalBodyKeepsOld(m, old) == old \o SwitchTab(m, "current", old)

\* flyerContainer after openModal(m): openModal renders through switchTab('current').
OpenModalBody(m, old) == SwitchTab(m, "current", old)

\* A card's click listener: openModal(mart).
CardClick(m) ==
    /\ Listening
    /\ HasCard(m)
    /\ IF variant = "A"
       THEN /\ InFlight < MaxPending
            /\ Len(hist) < MaxHistory
            /\ hist' = Append(hist, TRUE)
            /\ rafPending' = rafPending + 1
            /\ modalClasses' = modalClasses \ {"hidden"}
       ELSE /\ modalClasses' = (modalClasses \ {"hidden"}) \cup {"show"}
            /\ UNCHANGED <<rafPending, hist>>
    /\ currentMart' = m
    /\ bodyOverflow' = "hidden"
    /\ tabCurrentActive' = TabClasses("current").current
    /\ tabPastActive' = TabClasses("current").past
    /\ flyerContainer' = OpenModalBody(m, flyerContainer)
    /\ modalTitle' = TitleOf(m)
    /\ closeReq' = Input
    /\ UNCHANGED <<fixedVars, loadVars, timers, pendingBack>>

\* A tab's click listener: switchTab(tab).  With currentMart = null the call throws
\* at currentMart.flyers, after the classes are set.
TabClick(tab) ==
    /\ Listening
    /\ tabCurrentActive' = TabClasses(tab).current
    /\ tabPastActive' = TabClasses(tab).past
    /\ flyerContainer' = (IF currentMart = NoMart THEN flyerContainer
                          ELSE SwitchTab(currentMart, tab, flyerContainer))
    /\ closeReq' = Input
    /\ UNCHANGED <<fixedVars, loadVars, currentMart, modalTitle, closeVars, hist, rafPending>>

\* ------------------------------------------------------------------ close
\* history.state && history.state.modal
MarkerPresent == hist[Len(hist)]

\* Mutant of HideModalUI: 'hidden' is added with the removal of 'show', not by the
\* timer.
HideModalUIHidesAtOnce ==
    /\ modalClasses' = (modalClasses \ {"show"}) \cup {"hidden"}
    /\ timers' = timers + 1
    /\ bodyOverflow' = ""

\* hideModalUI (and closeModal of the embedded-data script): 'show' removed, the
\* 300 ms timer started, the body scroll restored.
HideModalUI ==
    /\ modalClasses' = modalClasses \ {"show"}
    /\ timers' = timers + 1
    /\ bodyOverflow' = ""

\* Mutant of CloseModal: the history entry is not consulted.
CloseModalAlwaysHides ==
    /\ InFlight < MaxPending
    /\ HideModalUI
    /\ UNCHANGED pendingBack

\* closeModal.  History-aware script: history.back() when the current entry carries
\* the marker, else hideModalUI.  history.back() only queues the traversal.
CloseModal ==
    /\ InFlight < MaxPending
    /\ IF variant = "A" /\ MarkerPresent
       THEN /\ pendingBack' = pendingBack + 1
            /\ UNCHANGED <<modalClasses, timers, bodyOverflow>>
       ELSE /\ HideModalUI
            /\ UNCHANGED pendingBack

\* Click on .close-button.  (The click bubbles to the modal's listener with the
\* button as target, which does nothing.)
CloseButtonClick ==
    /\ Listening
    /\ CloseModal
    /\ closeReq' = Trigger("button")
    /\ UNCHANGED <<fixedVars, loadVars, sessionVars, hist, rafPending>>

\* Click on the modal with e.target === modal.
BackdropClick ==
    /\ Listening
    /\ CloseModal
    /\ closeReq' = Trigger("backdrop")
    /\ UNCHANGED <<fixedVars, loadVars, sessionVars, hist, rafPending>>

\* Click on a child of the modal that has no listener of its own: the click bubbles
\* to the modal's listener with e.target !== modal.
ModalChildClick ==
    /\ Listening
    /\ closeReq' = Input
    /\ UNCHANGED <<fixedVars, loadVars, sessionVars, closeVars, hist, rafPending>>

\* Mutant of EscapeKey: the 'show' class is not tested.
EscapeKeyUntested ==
    /\ Listening
    /\ CloseModal
    /\ closeReq' = Trigger("escape")
    /\ UNCHANGED <<fixedVars, loadVars, sessionVars, hist, rafPending>>

\* keydown with e.key === 'Escape'.
EscapeKey ==
    /\ Listening
    /\ IF "show" \in modalClasses THEN CloseModal ELSE UNCHANGED closeVars
    /\ closeReq' = Trigger("escape")
    /\ UNCHANGED <<fixedVars, loadVars, sessionVars, hist, rafPending>>

\* The user presses the browser's back button while an entry of this document lies
\* behind the current one: a traversal by -1 is queued.
BrowserBack ==
    /\ variant = "A"
    /\ Len(hist) > 1
    /\ InFlight < MaxPending
    /\ pendingBack' = pendingBack + 1
    /\ closeReq' = Trigger("back")
    /\ UNCHANGED <<fixedVars, loadVars, sessionVars, modalClasses, bodyOverflow, timers,
                   hist, rafPending>>

\* A queued traversal is performed: the current entry is left and popstate is
\* dispatched, whose listener hides the modal when it carries 'show'.  At the
\* document's first entry there is nothing to traverse to.
PopstateDeliver ==
    /\ pendingBack > 0
    /\ IF Len(hist) > 1
       THEN /\ hist' = SubSeq(hist, 1, Len(hist) - 1)
            /\ IF Listening /\ "show" \in modalClasses
               THEN HideModalUI
               ELSE UNCHANGED <<modalClasses, timers, bodyOverflow>>
       ELSE UNCHANGED <<hist, modalClasses, timers, bodyOverflow>>
    /\ pendingBack' = pendingBack - 1
    /\ UNCHANGED <<fixedVars, loadVars, sessionVars, rafPending, closeReq>>

\* The requestAnimationFrame callback of openModal.
AnimationFrame ==
    /\ rafPending > 0
    /\ rafPending' = rafPending - 1
    /\ modalClasses' = modalClasses \cup {"show"}
    /\ UNCHANGED <<fixedVars, loadVars, sessionVars, bodyOverflow, timers, pendingBack,
                   hist, closeReq>>

\* Mutant of CloseTimerFire: the callback does nothing when the modal was opened
\* again since the hide step.
CloseTimerFireUnlessReopened ==
    /\ timers > 0
    /\ timers' = timers - 1
    /\ modalClasses' = (IF Opened THEN modalClasses ELSE modalClasses \cup {"hidden"})
    /\ flyerContainer' = (IF Opened THEN flyerContainer ELSE <<>>)
    /\ UNCHANGED <<fixedVars, loadVars, currentMart, modalTitle, tabCurrentActive,
                   tabPastActive, bodyOverflow, pendingBack, hist, rafPending, closeReq>>

\* The 300 ms timer of a hide step fires.
CloseTimerFire ==
    /\ timers > 0
    /\ timers' = timers - 1
    /\ modalClasses' = modalClasses \cup {"hidden"}
    /\ flyerContainer' = <<>>
    /\ UNCHANGED <<fixedVars, loadVars, currentMart, modalTitle, tabCurrentActive,
                   tabPastActive, bodyOverflow, pendingBack, hist, rafPending, closeReq>>

\* ------------------------------------------------------------------ image events
Loading(i) ==
    /\ i \in 1..Len(flyerContainer)
    /\ IsImg(flyerContainer[i])
    /\ flyerContainer[i].state = "loading"

\* Mutant of OnError: the border is not set.
OnErrorNoBorder(img) ==
    IF variant = "A"
    THEN [img EXCEPT !.onerror = FALSE, !.src = PlaceholderA]
    ELSE [img EXCEPT !.onerror = FALSE, !.src = PlaceholderB]

\* Mutant of OnError: the handler stays attached.
OnErrorStaysAttached(img) ==
    IF variant = "A"
    THEN [img EXCEPT !.src = PlaceholderA, !.border = TRUE]
    ELSE [img EXCEPT !.src = PlaceholderB]

\* img.onerror of a flyer image.
OnError(img) ==
    IF variant = "A"
    THEN [img EXCEPT !.onerror = FALSE, !.src = PlaceholderA, !.border = TRUE]
    ELSE [img EXCEPT !.onerror = FALSE, !.src = PlaceholderB]

\* The image at position i fails to load: the error event runs the handler when one
\* is attached, and the new src starts a new load; without a handler the image
\* stays broken.  (A load that succeeds runs no code of the script: an image that
\* never fails stays "loading" here.)
ImgError(i) ==
    /\ Loading(i)
    /\ flyerContainer' =
          [flyerContainer EXCEPT ![i] =
              IF @.onerror THEN OnError(@) ELSE [@ EXCEPT !.state = "broken"]]
    /\ UNCHANGED <<fixedVars, loadVars, currentMart, modalTitle, tabCurrentActive,
                   tabPastActive, closeVars, hist, rafPending, closeReq>>

\* ------------------------------------------------------------------ specification
Next ==
    \/ DOMContentLoaded
    \/ \E outcome \in FetchOutcomes : FetchSettle(outcome)
    \/ PreloadRun
    \/ \E m \in 1..Len(marts) : CardClick(m)
    \/ \E tab \in Tabs : TabClick(tab)
    \/ CloseButtonClick
    \/ BackdropClick
    \/ ModalChildClick
    \/ EscapeKey
    \/ BrowserBack
    \/ PopstateDeliver
    \/ AnimationFrame
    \/ CloseTimerFire
    \/ \E i \in 1..MaxImages : ImgError(i)

Spec == Init /\ [][Next]_vars

\* The history-aware script on one payload, with the close requests recorded.
CloseData ==
    {<<[name |-> Name1, flyers |-> [current |-> FlyerSet(ImagesOf(1, "current", 1)),
                                    past |-> FlyerSet(<<>>)]],
       [name |-> Name2, flyers |-> Flyers2]>>}

InitClose == InitWith(CloseData, {"A"}, "none")

SpecClose == InitClose /\ [][Next]_vars

\* The history-aware script on every name up to MaxNameLen characters: the fetch,
\* the cards and the opening of the modal.
InitNames == InitWith(NameDataSet, {"A"}, "off")

NextNames ==
    \/ DOMContentLoaded
    \/ \E outcome \in FetchOutcomes : FetchSettle(outcome)
    \/ \E m \in 1..Len(marts) : CardClick(m)

SpecNames == InitNames /\ [][NextNames]_vars

\* ================================================================== claims
\* ------------------------------------------------------------------ C1
CloseTriggers == {"button", "backdrop", "escape", "back"}

\* No callback is in flight: every popstate, animation frame and close timer that
\* was due has been delivered.
Quiescent == pendingBack = 0 /\ timers = 0 /\ rafPending = 0

\* The final state of a close.
Closed ==
    /\ "hidden" \in modalClasses
    /\ "show" \notin modalClasses
    /\ flyerContainer = <<>>
    /\ bodyOverflow = ""

\* C1: in the history-aware script, a close trigger (close button, backdrop click,
\* Escape, browser back) given while the modal is open (opened by openModal, not yet
\* closed) and followed by no further user input leads, once the popstate event and
\* the timers are delivered, to the closed state: modal 'hidden' and not 'show',
\* flyer container empty, body overflow ''.
C1_CloseConverges == (closeReq \in CloseTriggers /\ Quiescent) => Closed

\* ------------------------------------------------------------------ C2
\* An <img> as switchTab creates it for url: handler attached, no border, loading.
FreshImage(el, url) ==
    /\ IsImg(el)
    /\ el.src = url
    /\ el.onerror
    /\ ~el.border
    /\ el.state = "loading"

\* The container holds one fresh <img> per URL of images, in order, and nothing else.
ShowsImages(cont, images) ==
    /\ Len(cont) = Len(images)
    /\ \A i \in 1..Len(images) : FreshImage(cont[i], images[i])

\* cont is the rendering of mart m's current flyer set.
ShowsCurrentOf(m, cont) ==
    LET images == data[m].flyers.current.images
    IN  IF Len(images) > 0 THEN ShowsImages(cont, images)
        ELSE IF variant = "A" THEN cont = <<NoImagesMessage>>
        ELSE cont = <<>>

\* No element of cont shows a page of a mart other than m.
NothingOfOthers(m, cont) ==
    \A i \in 1..Len(cont) : IsImg(cont[i]) => cont[i].src[1] = m

\* The modal session shows mart m and nothing else.
ReplacedBy(m, mart, title, tabC, tabP, cont) ==
    /\ mart = m
    /\ tabC /\ ~tabP
    /\ ShowsCurrentOf(m, cont)
    /\ NothingOfOthers(m, cont)
    /\ title = TitleOf(m)

\* C2: openModal(B) while the modal is open for a mart A (no close in between)
\* leaves currentMart = B, the title that of B's name, the 'current' tab active and
\* the flyer container holding exactly the rendering of B.flyers.current, with no
\* element of A, whatever tab was selected for A; in both scripts.
C2_ReopenReplaces ==
    [][\A m \in 1..Len(marts) :
          (Opened /\ currentMart # NoMart /\ CardClick(m))
          => ReplacedBy(m, currentMart', modalTitle', tabCurrentActive',
                        tabPastActive', flyerContainer')]_vars

\* Reached by a reentrant open in the history-aware script: two marker entries lie
\* on the history, no traversal is queued, and the second mart is shown.
C2_Witness ==
    /\ variant = "A"
    /\ hist = <<FALSE, TRUE, TRUE>>
    /\ pendingBack = 0 /\ timers = 0
    /\ Opened
    /\ ReplacedBy(2, currentMart, modalTitle, tabCurrentActive, tabPastActive,
                  flyerContainer)
    /\ Len(data[1].flyers.current.images) = MaxImages

\* ------------------------------------------------------------------ C3
\* The <img> elements of a container, in order.
ImagesIn(cont) == SelectSeq(cont, IsImg)

\* cont holds exactly one <img> per URL of images, the i-th showing the i-th URL.
InOrder(cont, images) ==
    /\ Len(ImagesIn(cont)) = Len(images)
    /\ \A i \in 1..Len(images) : ImagesIn(cont)[i].src = images[i]

FlyerData(m, tab) == IF tab = "current" THEN data[m].flyers.current ELSE data[m].flyers.past

\* C3: in the history-aware script, after switchTab(tab) for an active mart the flyer
\* container holds exactly N image elements, N >= 0 the length of that tab's image
\* sequence, and the i-th image element shows the i-th URL of the sequence.
C3_TabRendersInOrder ==
    [][\A tab \in Tabs :
          (variant = "A" /\ currentMart # NoMart /\ TabClick(tab)
             /\ FlyerData(currentMart, tab).hasImages)
          => InOrder(flyerContainer', FlyerData(currentMart, tab).images)]_vars

\* The past tab of the first mart shows its MaxImages pages in order.
C3_Witness ==
    /\ variant = "A"
    /\ currentMart = 1
    /\ tabPastActive
    /\ Len(data[1].flyers.past.images) = MaxImages
    /\ ShowsImages(flyerContainer, data[1].flyers.past.images)

\* ------------------------------------------------------------------ C4
\* C4: switchTab is idempotent in content, in both scripts: the switchTab(t) that
\* follows a switchTab(t) leaves the flyer container (same elements, same order, same
\* count) and the tab classes as the first call left them.
C4_SwitchTabIdempotent ==
    [][\A tab \in Tabs :
          (currentMart # NoMart /\ TabClick(tab))
          => /\ SwitchTab(currentMart', tab, flyerContainer') = flyerContainer'
             /\ TabClasses(tab).current = tabCurrentActive'
             /\ TabClasses(tab).past = tabPastActive']_vars

\* The embedded-data script after switchTab('past') on an empty past set: the
\* current pages, once.
C4_Witness ==
    /\ variant = "B"
    /\ currentMart = 1
    /\ tabPastActive /\ ~tabCurrentActive
    /\ NoImages(data[1].flyers.past)
    /\ Len(data[1].flyers.current.images) = MaxImages
    /\ ShowsImages(flyerContainer, data[1].flyers.current.images)

\* ------------------------------------------------------------------ C5
\* C5: in the history-aware script, switchTab('past') for a mart whose past image
\* sequence is empty or missing leaves the flyer container holding the 'no past
\* flyer' placeholder alone, no image element, whatever it held before.
C5_EmptyPastPlaceholder ==
    [][(variant = "A" /\ currentMart # NoMart /\ TabClick("past")
          /\ NoImages(data[currentMart].flyers.past))
       => flyerContainer' = <<NoPastMessage>>]_vars

\* The placeholder is shown for a mart whose past set has no images property.
C5_Witness ==
    /\ variant = "A"
    /\ currentMart = 1
    /\ tabPastActive
    /\ ~data[1].flyers.past.hasImages
    /\ flyerContainer = <<NoPastMessage>>

\* ------------------------------------------------------------------ C6
\* C6: in the embedded-data script, after switchTab('past') for a mart whose past
\* image sequence is empty the flyer container holds the informational note as its
\* first child, followed by one image element per current page, in order.
C6_FallbackNoteFirst ==
    [][(variant = "B" /\ currentMart # NoMart /\ TabClick("past")
          /\ NoImages(data[currentMart].flyers.past))
       => /\ Len(flyerContainer') = 1 + Len(data[currentMart].flyers.current.images)
          /\ flyerContainer'[1] = FallbackNote
          /\ InOrder(flyerContainer', data[currentMart].flyers.current.images)]_vars

\* ------------------------------------------------------------------ C7
\* C7: after every openModal and switchTab exactly one of the two tab controls is
\* 'active': the one switchTab was given, tab-current after openModal; also when
\* switchTab('past') returns early on an empty past set.
C7_OneActiveTab ==
    [][/\ \A tab \in Tabs :
            TabClick(tab) => /\ tabCurrentActive' = (tab = "current")
                             /\ tabPastActive' = (tab = "past")
       /\ \A m \in 1..Len(marts) :
            CardClick(m) => (tabCurrentActive' /\ ~tabPastActive')]_vars

\* The early return of the history-aware script, the past tab alone active.
C7_Witness ==
    /\ variant = "A"
    /\ flyerContainer = <<NoPastMessage>>
    /\ tabPastActive /\ ~tabCurrentActive

\* ------------------------------------------------------------------ C8
\* The image at position i has had its error fallback: placeholder and dashed border.
Failed(cont, i) ==
    /\ IsImg(cont[i])
    /\ cont[i].src = PlaceholderA
    /\ cont[i].border

\* C8: in a rendered flyer body of N images a load failure of image i changes image
\* i alone (its src becomes the fixed placeholder and it gets the dashed border):
\* the number of elements stays N and every image j # i keeps its src, its place and
\* its error state, whatever the order of the failures; and a later switchTab
\* renders the selected tab's images with their original URLs, each as new.
C8_FailureIsLocal ==
    [][/\ \A i \in 1..MaxImages :
            (variant = "A" /\ ImgError(i) /\ flyerContainer[i].onerror)
            => /\ Len(flyerContainer') = Len(flyerContainer)
               /\ Failed(flyerContainer', i)
               /\ \A j \in 1..Len(flyerContainer) :
                     j # i => flyerContainer'[j] = flyerContainer[j]
       /\ \A tab \in Tabs :
            (variant = "A" /\ currentMart # NoMart /\ TabClick(tab)
               /\ ~NoImages(FlyerData(currentMart, tab))
               /\ \E j \in 1..Len(flyerContainer) : Failed(flyerContainer, j))
            => ShowsImages(flyerContainer', FlyerData(currentMart, tab).images)]_vars

\* Of three rendered pages the second alone has failed.
C8_Witness ==
    /\ variant = "A"
    /\ currentMart = 1
    /\ tabCurrentActive
    /\ Len(flyerContainer) = 3
    /\ FreshImage(flyerContainer[1], data[1].flyers.current.images[1])
    /\ Failed(flyerContainer, 2)
    /\ FreshImage(flyerContainer[3], data[1].flyers.current.images[3])

\* ------------------------------------------------------------------ C9
NoCard == \A i \in 1..Len(martList) : martList[i].kind # "card"

\* C9: in the history-aware script no card exists before the fetch has resolved
\* successfully; when the response is not OK, its body fails to parse or the request
\* rejects, the list container holds the failure message alone, no card, and no
\* preload is scheduled or run; and the fetch is issued once, by the DOMContentLoaded
\* handler, never again.
C9_FetchGatesRendering ==
    /\ [](variant = "A" =>
            /\ fetched # "ok" => (NoCard /\ preload = "none" /\ preloaded = {})
            /\ fetched \in {"notOk", "parseError", "rejected"}
                  => (martList = <<FailureMessage>> /\ phase = "failed"))
    /\ [][((phase' = "fetching" /\ phase # "fetching") => phase = "loading")
            /\ (phase # "loading" => phase' # "loading")]_vars

\* The response was not OK and the failure message is shown.
C9_Witness ==
    /\ variant = "A"
    /\ fetched = "notOk"
    /\ martList = <<FailureMessage>>
    /\ preload = "none"

\* ------------------------------------------------------------------ C10
\* A name of the form <A>(<B>): text, the first "(", text without ")", and a ")"
\* that ends the name.
OpenParens(name) == {i \in 1..Len(name) : name[i] = "("}

IsForm(name) ==
    /\ Len(name) >= 4
    /\ name[Len(name)] = ")"
    /\ OpenParens(name) # {}
    /\ MinOf(OpenParens(name)) > 1
    /\ MinOf(OpenParens(name)) + 1 < Len(name)
    /\ \A i \in (MinOf(OpenParens(name)) + 1)..(Len(name) - 1) : name[i] # ")"

PartA(name) == SubSeq(name, 1, MinOf(OpenParens(name)) - 1)
PartB(name) == SubSeq(name, MinOf(OpenParens(name)) + 1, Len(name) - 1)

SplitAs(shown, name) ==
    /\ shown.kind = "spans"
    /\ shown.ko = Trim(PartA(name))
    /\ shown.en = Trim(PartB(name))

ShownRaw(shown, name) == shown.kind = "text" /\ shown.text = name

ShownAsClaimed(shown, name) ==
    IF IsForm(name) THEN SplitAs(shown, name) ELSE ShownRaw(shown, name)

\* C10: in the history-aware script the card name, and the modal title of the opened
\* mart, show a name of the form <A>(<B>) as two segments holding the trimmed A and
\* the trimmed B, and show every other name (no parenthesis pair, nothing before the
\* "(", nothing inside the parentheses, or text after the closing ")") as the raw
\* string; card and title split alike.
C10_NameSplit ==
    variant = "A" =>
        /\ \A i \in 1..Len(martList) :
              martList[i].kind = "card"
              => ShownAsClaimed(martList[i].name, marts[martList[i].mart].name)
        /\ currentMart # NoMart => ShownAsClaimed(modalTitle, marts[currentMart].name)

\* ------------------------------------------------------------------ C11
\* A listener runs closeModal: the close button, the backdrop, or Escape while the
\* modal carries 'show'.
RunsCloseModal ==
    \/ CloseButtonClick
    \/ BackdropClick
    \/ ("show" \in modalClasses /\ EscapeKey)

\* C11: in the history-aware script closeModal chooses by the current history entry.
\* With the marker it only queues history.back(): modal classes, body overflow,
\* flyer container, timers and the history entry are as before; every hide step
\* taken while the marker is present is the popstate listener's, taken when a
\* traversal is delivered.  Without the marker closeModal runs hideModalUI itself and
\* queues no traversal.
C11_ClosePath ==
    [][/\ (variant = "A" /\ RunsCloseModal)
          => IF MarkerPresent
             THEN /\ pendingBack' = pendingBack + 1
                  /\ UNCHANGED <<modalClasses, bodyOverflow, flyerContainer, timers, hist>>
             ELSE /\ modalClasses' = modalClasses \ {"show"}
                  /\ bodyOverflow' = ""
                  /\ timers' = timers + 1
                  /\ UNCHANGED <<pendingBack, hist, flyerContainer>>
       /\ (variant = "A" /\ MarkerPresent /\ timers' > timers)
          => /\ pendingBack' = pendingBack - 1
             /\ hist' = SubSeq(hist, 1, Len(hist) - 1)
             /\ "show" \in modalClasses
             /\ "show" \notin modalClasses'
             /\ bodyOverflow' = ""]_vars

\* The close button was clicked on the open modal: a traversal is queued and the
\* modal is as it was.
C11_Witness ==
    /\ closeReq = "button"
    /\ MarkerPresent
    /\ pendingBack = 1
    /\ timers = 0
    /\ "show" \in modalClasses
    /\ bodyOverflow = "hidden"
    /\ flyerContainer # <<>>

\* ------------------------------------------------------------------ C12
\* The step is none of openModal, switchTab, an image's error handler.
NoRender ==
    /\ bodyOverflow' # "hidden"
    /\ \A tab \in Tabs : ~TabClick(tab)
    /\ \A i \in 1..MaxImages : ~ImgError(i)

\* C12 as stated: between a hide step and the firing of its own timer, with no open
\* in between, the modal is not 'hidden'.  Timers of equal delay fire in the order
\* they were started, so while a timer fires and another stays pending, the state
\* reached lies between the latest hide step and its timer.
C12_HiddenOnlyAtOwnTimer ==
    [][(/\ timers > 1
        /\ timers' = timers - 1
        /\ bodyOverflow = ""
        /\ "hidden" \notin modalClasses)
       => "hidden" \notin modalClasses']_vars

\* C12 amended: every hide step removes 'show' and restores the body overflow in the
\* same step, leaving 'hidden' and the flyer container as they are; 'hidden' is added
\* only by a close timer that fires, and besides openModal, switchTab and the image
\* error handler only such a timer changes the container, emptying it; and after a hide
\* step taken with no other close timer pending, until its timer fires, every step
\* that is no open, tab switch or image error keeps the modal not 'hidden' and the
\* container's content.
C12_HideThenTimer ==
    [][/\ timers' = timers + 1
          => /\ modalClasses' = modalClasses \ {"show"}
             /\ bodyOverflow' = ""
             /\ flyerContainer' = flyerContainer
       /\ ("hidden" \in modalClasses' /\ "hidden" \notin modalClasses)
          => timers' = timers - 1
       /\ (flyerContainer' # flyerContainer /\ NoRender)
          => (timers' = timers - 1 /\ flyerContainer' = <<>>)
       /\ (timers = 1 /\ timers' = 1 /\ "hidden" \notin modalClasses /\ NoRender)
          => /\ "hidden" \notin modalClasses'
             /\ flyerContainer' = flyerContainer]_vars

\* Between a hide step and its timer: the images are still in the container.
C12_Witness ==
    /\ timers = 1
    /\ bodyOverflow = ""
    /\ modalClasses = {}
    /\ currentMart # NoMart
    /\ ShowsImages(flyerContainer, FlyerData(currentMart, "current").images)

\* ------------------------------------------------------------------ C13
\* C13: the close timer is never cancelled: openModal leaves the pending timers as
\* they are, and every pending timer ends by firing, which empties the flyer
\* container and adds 'hidden' whatever happened since its hide step, the active
\* mart, the body overflow and 'show' staying as they are.  (The state the claim
\* names, reached by such a firing after a reopen, is C13_Witness.)
C13_TimerNeverCancelled ==
    [][/\ timers' < timers
          => /\ timers' = timers - 1
             /\ flyerContainer' = <<>>
             /\ "hidden" \in modalClasses'
             /\ modalClasses' \ {"hidden"} = modalClasses \ {"hidden"}
             /\ currentMart' = currentMart
             /\ bodyOverflow' = bodyOverflow
       /\ (\E m \in 1..Len(marts) : CardClick(m)) => timers' = timers]_vars

\* The history-aware script after hide, reopen of mart 2, the stale timer and the
\* animation frame: mart 2 is active and shown, its one current page erased.
C13_Witness ==
    /\ variant = "A"
    /\ currentMart = 2
    /\ Len(data[2].flyers.current.images) > 0
    /\ "show" \in modalClasses
    /\ bodyOverflow = "hidden"
    /\ tabCurrentActive
    /\ flyerContainer = <<>>

\* ------------------------------------------------------------------ C14
\* C14: in the history-aware script an Escape key press, or a popstate event
\* delivered, while the modal does not carry 'show' changes nothing of the modal
\* classes, the flyer container, the body overflow, the active mart and the timers;
\* Escape leaves the history as it is, and the popstate listener queues no further
\* traversal (the entry left is the one the delivered traversal left).  A click on a
\* child of the modal closes nothing.
C14_IgnoredWithoutShow ==
    [][/\ (variant = "A" /\ "show" \notin modalClasses /\ (EscapeKey \/ PopstateDeliver))
          => /\ UNCHANGED <<modalClasses, flyerContainer, bodyOverflow, currentMart, timers>>
             /\ EscapeKey => UNCHANGED <<hist, pendingBack>>
             /\ PopstateDeliver
                  => /\ pendingBack' = pendingBack - 1
                     /\ Len(hist') >= Len(hist) - 1
       /\ (variant = "A" /\ ModalChildClick)
          => UNCHANGED <<modalClasses, flyerContainer, bodyOverflow, currentMart, timers,
                         hist, pendingBack>>]_vars

\* The modal was opened and, before its animation frame ran, a popstate event was
\* delivered: the marker entry is left, the modal is as openModal left it.
C14_Witness ==
    /\ variant = "A"
    /\ bodyOverflow = "hidden"
    /\ modalClasses = {}
    /\ rafPending = 1
    /\ hist = <<FALSE>>
    /\ pendingBack = 0
    /\ timers = 0
    /\ flyerContainer # <<>>

\* ------------------------------------------------------------------ C15
\* The page as it was loaded, nothing of the script having run.
Untouched ==
    /\ fetched = "none"
    /\ marts = <<>>
    /\ martList = <<>>
    /\ preload = "none"
    /\ preloaded = {}
    /\ currentMart = NoMart
    /\ modalClasses = {"hidden"}
    /\ flyerContainer = <<>>
    /\ bodyOverflow = ""
    /\ hist = <<FALSE>>
    /\ InFlight = 0

\* C15: in the history-aware script with a required container missing, the
\* DOMContentLoaded handler aborts: no fetch is issued (the phase is never
\* "fetching" or later, so no listener is registered), no card is rendered, no
\* preload scheduled, and once aborted no step changes the state.
C15_AbortsWithoutContainers ==
    /\ []((variant = "A" /\ ~domOk) => (phase \in {"loading", "aborted"} /\ Untouched))
    /\ [][phase = "aborted" => UNCHANGED vars]_vars

\* The handler has run and aborted.
C15_Witness ==
    /\ variant = "A"
    /\ ~domOk
    /\ phase = "aborted"
    /\ ~Listening

\* ------------------------------------------------------------------ C16
\* C16: in the history-aware script, whenever the modal is fully closed ('hidden',
\* not 'show', no close timer pending; here also no animation frame and no traversal
\* pending) the current history entry does not carry the modal marker.
C16_NoLeftoverMarker ==
    (/\ variant = "A"
     /\ "hidden" \in modalClasses
     /\ "show" \notin modalClasses
     /\ Quiescent)
    => ~MarkerPresent

\* ------------------------------------------------------------------ C17
\* C17: in no reachable state does the modal carry 'hidden' while the body overflow
\* is 'hidden', and in none does it carry both 'hidden' and 'show'.
C17_ScrollLockOnlyWhileVisible ==
    /\ ~("hidden" \in modalClasses /\ bodyOverflow = "hidden")
    /\ ~("hidden" \in modalClasses /\ "show" \in modalClasses)

\* ------------------------------------------------------------------ C18
Placeholder == IF variant = "A" THEN PlaceholderA ELSE PlaceholderB

\* The error events an image can still answer: two with its handler attached, one
\* with the handler detached and a load under way, none once it is broken.
ErrorRank(img) == IF img.onerror THEN 2 ELSE IF img.state = "loading" THEN 1 ELSE 0

\* C18: an image's error fallback runs at most once.  The first load failure detaches
\* the handler and sets the placeholder as src; a failure with the handler detached
\* (the placeholder failing) changes no src and runs no handler; every error event
\* lowers the image's rank, so error handling ends for every image, also when every
\* URL and the placeholder fail.
C18_FallbackRunsOnce ==
    /\ [](\A i \in 1..Len(flyerContainer) :
            IsImg(flyerContainer[i])
            => /\ flyerContainer[i].onerror => flyerContainer[i].src # Placeholder
               /\ ~flyerContainer[i].onerror => flyerContainer[i].src = Placeholder
               /\ flyerContainer[i].state = "broken" => ~flyerContainer[i].onerror)
    /\ [][\A i \in 1..MaxImages :
            ImgError(i)
            => /\ ErrorRank(flyerContainer'[i]) < ErrorRank(flyerContainer[i])
               /\ IF flyerContainer[i].onerror
                  THEN /\ ~flyerContainer'[i].onerror
                       /\ flyerContainer'[i].src = Placeholder
                  ELSE /\ ~flyerContainer'[i].onerror
                       /\ flyerContainer'[i].src = flyerContainer[i].src]_vars

\* Every image of a three-page flyer failed, and every placeholder too.
C18_Witness ==
    /\ Len(flyerContainer) = MaxImages
    /\ \A i \in 1..Len(flyerContainer) :
          /\ IsImg(flyerContainer[i])
          /\ flyerContainer[i].src = Placeholder
          /\ ~flyerContainer[i].onerror
          /\ flyerContainer[i].state = "broken"

====
